---- MODULE Spec2Model ----
(***************************************************************************)
(* os_brick.encryptors: the dm-crypt (CryptsetupEncryptor) and LUKS        *)
(* (LuksEncryptor) volume encryptors, driving the external cryptsetup tool *)
(* through the command runner (self._execute).                             *)
(*                                                                         *)
(* One host.  The kernel mapping table (under /dev/mapper), the LUKS header *)
(* of each block device, the caller-visible symbolic link and the key held *)
(* by the key manager are the environment.  Callers are threads, grouped   *)
(* into operating-system processes; each thread constructs encryptor       *)
(* objects and calls attach_volume / detach_volume on them.  Every         *)
(* external command is one step: a call is suspended only while a command  *)
(* runs.                                                                   *)
(***************************************************************************)
EXTENDS Integers, Sequences, FiniteSets, TLC

\* ------------------------------------------------------------------------
\* Bounds of the model
\* ------------------------------------------------------------------------
\* attach_volume / detach_volume calls started on the host, in total
MaxCalls == 2

\* encryptor objects constructed on the host, in total
MaxCtors == 2

\* ------------------------------------------------------------------------
\* Values
\* ------------------------------------------------------------------------
None == "None"

Threads == {"t1", "t2", "t3"}

\* t1 and t2 are threads of one process, t3 runs in another process
ProcOf(t) == IF t = "t3" THEN "p2" ELSE "p1"

Procs == {ProcOf(t) : t \in Threads}

Backends == {"cryptsetup", "luks"}

\* connection_info['data']['device_path'], as its path components
SymlinkPath == <<"dev", "disk", "by-path", "vol1">>

\* the block device the link points at when the volume is connected
RawDev == "/dev/sdb"

Wwn == "3600a0b8"

\* raw keys handed out by the key manager: one with a byte below 0x10
\* (the two encodings differ) and one without (they coincide)
Keys == {<<0, 171>>, <<18, 52>>}

\* the keyword arguments of attach_volume: none, or cipher and key_size
Kwargs ==
  { [cipher |-> None, key_size |-> None],
    [cipher |-> "aes-xts-plain64", key_size |-> "256"] }

\* the volumes of the model: a key and the encryption options of its type
Volumes ==
  { [key |-> <<0, 171>>, options |-> [cipher |-> None, key_size |-> None]],
    [key |-> <<18, 52>>,
     options |-> [cipher |-> "aes-xts-plain64", key_size |-> "256"]] }

\* a passphrase that is no encoding of the key
ForeignPassphrase == "ffff"

OtherCode == 5

\* ------------------------------------------------------------------------
\* Pure helpers
\* ------------------------------------------------------------------------
RECURSIVE PathStr(_)
PathStr(p) == IF p = <<>> THEN "" ELSE "/" \o Head(p) \o PathStr(Tail(p))

\* os.path.basename: the last component, empty for the empty path
Basename(p) == IF p = <<>> THEN "" ELSE p[Len(p)]

MapperPath(name) == "/dev/mapper/" \o name

HexDigits ==
  <<"0", "1", "2", "3", "4", "5", "6", "7", "8", "9", "a", "b", "c", "d", "e", "f">>

\* binascii.hexlify of one byte: always two digits
Hexlify(b) == HexDigits[(b \div 16) + 1] \o HexDigits[(b % 16) + 1]

\* hex(x).replace('0x', ''): no leading zero
HexNoPrefix(b) ==
  IF b < 16 THEN HexDigits[b + 1]
  ELSE HexDigits[(b \div 16) + 1] \o HexDigits[(b % 16) + 1]

RECURSIVE _get_passphrase(_)
_get_passphrase(k) ==
  IF k = <<>> THEN "" ELSE Hexlify(Head(k)) \o _get_passphrase(Tail(k))

RECURSIVE _get_mangled_passphrase(_)
_get_mangled_passphrase(k) ==
  IF k = <<>> THEN "" ELSE HexNoPrefix(Head(k)) \o _get_mangled_passphrase(Tail(k))

\* the connection infos callers pass in
ConnInfos ==
  { [device_path |-> d, multipath_id |-> w] :
      d \in {SymlinkPath}, w \in {None, Wwn, Basename(SymlinkPath)} }
  \cup { [device_path |-> <<>>, multipath_id |-> None] }

OldName == Basename(SymlinkPath)

CryptName == "crypt-" \o OldName

Names == {OldName, Wwn, CryptName}

Devices == {RawDev} \cup {MapperPath(n) : n \in Names}

NoMapping == [kind |-> "none", device |-> None]

NoHeader == [luks |-> FALSE, slots |-> <<>>]

NoEnc ==
  [backend |-> None, symlink_path |-> <<>>, dev_name |-> None, dev_path |-> None,
   multipath_id |-> None]

NoErr == [exc |-> None, rc |-> 0, at |-> 0]

NoCall == [kind |-> None]

NoRet == [to |-> None, device |-> None]

NoPrev == [kind |-> None, exc |-> None, gone |-> FALSE]

\* what a caller that keeps its connection info holds: the connection info
\* it constructs encryptors from, the mapping name its last attach_volume
\* returned normally under, and whether its encryptor was constructed after
\* that attach; a caller that keeps nothing stays as it is
NoCaller ==
  [keeps |-> FALSE, conn |-> [device_path |-> <<>>, multipath_id |-> None],
   attached |-> None, fresh |-> FALSE]

Keeper == [NoCaller EXCEPT !.keeps = TRUE]

NoObs ==
  [device_path |-> <<>>, wwn |-> None,
   oldExists |-> FALSE, oldRc |-> -1, wwnExists |-> FALSE, wwnRc |-> -1]

VARIABLES
  mapper,   \* kernel mapping table: name -> [kind, device]
  hdr,      \* LUKS header of each device: [luks, slots]
  link,     \* where the symbolic link at symlink_path points
  key,      \* the volume's key in the key manager
  options,  \* the volume's encryption options, passed to every call as kwargs
  lock,     \* per process and lock name: the thread holding the lock
  active,   \* the threads that make calls
  ops,      \* attach/detach calls started so far
  ctors,    \* encryptor objects constructed so far
  pc,       \* per thread: position in the code
  enc,      \* per thread: its encryptor object
  call,     \* per thread: the call in progress, with its keyword arguments
  log,      \* per thread: commands executed by the current operation
  err,      \* per thread: the exception the operation raised, if any
  ret,      \* per thread: where _close_volume returns to
  attempt,  \* per thread: attempt number of the command about to run
  obs,      \* per thread: what __init__ observed of the mapping table
  start,    \* per thread: the device's header when the call started
  prev,     \* per thread: the previous call on the same encryptor
  caller    \* per thread: the caller's connection info and last attach

vars ==
  <<mapper, hdr, link, key, options, lock, active, ops, ctors, pc, enc, call, log,
    err, ret, attempt, obs, start, prev, caller>>

world == <<mapper, hdr, link, key, options>>

\* ------------------------------------------------------------------------
\* The external tool: what each command can exit with in the current state
\* of the host, and what a successful run changes.  Exit code 0 needs the
\* host to allow the command; a failure is possible at any time.
\* ------------------------------------------------------------------------
DevExists(d) ==
  \/ d = RawDev
  \/ \E n \in Names : d = MapperPath(n) /\ mapper[n].kind # "none"

\* os.path.exists('/dev/mapper/<name>')
MapperExists(name) == name \in Names /\ mapper[name].kind # "none"

InUse(d) == \E n \in Names : mapper[n].kind = "crypt" /\ mapper[n].device = d

HasSlot(d, passphrase) ==
  /\ d \in Devices
  /\ hdr[d].luks
  /\ \E i \in 1..Len(hdr[d].slots) : hdr[d].slots[i] = passphrase

\* cryptsetup status: 0 active crypt mapping, 1 not a crypt device, 4 inactive
StatusCodes(name) ==
  CASE mapper[name].kind = "crypt" -> {0, OtherCode}
    [] mapper[name].kind = "other" -> {1}
    [] OTHER -> {4}

\* stdout of cryptsetup status, as lines split into fields
StatusStdout(name, rc) ==
  CASE rc = 0 ->
         << <<MapperPath(name), "is", "active.">>,
            <<"type:", "n/a">>,
            <<>>,
            <<"device:", mapper[name].device>> >>
    [] rc = 4 -> << <<MapperPath(name), "is", "inactive.">> >>
    [] OTHER -> <<>>

\* cryptsetup create / luksOpen: 0 ok, 1 not formatted, 2 wrong passphrase;
\* a device that backs a mapping is busy and cannot be mapped again
OpenCodes(backend, dev_path, dev_name, passphrase) ==
  LET canMap == /\ mapper[dev_name].kind = "none"
                /\ DevExists(dev_path) /\ ~InUse(dev_path)
  IN IF backend = "luks"
     THEN (IF canMap /\ HasSlot(dev_path, passphrase) THEN {0} ELSE {})
          \cup (IF dev_path \in Devices /\ hdr[dev_path].luks
                   /\ ~HasSlot(dev_path, passphrase) THEN {2} ELSE {})
          \cup {1, OtherCode}
     ELSE (IF canMap THEN {0} ELSE {}) \cup {1, 2, OtherCode}

\* cryptsetup isLuks: 0 is LUKS, non-zero not LUKS or could not tell
IsLuksCodes(device) ==
  IF device \in Devices /\ DevExists(device) /\ hdr[device].luks
  THEN {0, OtherCode} ELSE {1}

FormatCodes(dev_path) ==
  IF dev_path \in Devices /\ DevExists(dev_path) /\ ~InUse(dev_path)
  THEN {0, OtherCode} ELSE {OtherCode}

AddKeyCodes(dev_path, existing) ==
  IF DevExists(dev_path) /\ HasSlot(dev_path, existing) THEN {0, OtherCode}
  ELSE IF dev_path \in Devices /\ hdr[dev_path].luks THEN {2} ELSE {1}

RemoveKeyCodes(dev_path, passphrase) ==
  IF DevExists(dev_path) /\ HasSlot(dev_path, passphrase) THEN {0, OtherCode}
  ELSE IF dev_path \in Devices /\ hdr[dev_path].luks THEN {2} ELSE {1}

\* cryptsetup remove / luksClose: 0 removed, 4 no such mapping
RemoveCodes(name) ==
  CASE mapper[name].kind = "crypt" /\ ~InUse(MapperPath(name)) -> {0, OtherCode}
    [] mapper[name].kind = "none" -> {4}
    [] OTHER -> {OtherCode}

LnCodes == {0, 1}

UdevCodes == {0, 1}

\* the header after luksRemoveKey: the first slot holding the passphrase goes
RECURSIVE RemoveSlot(_, _)
RemoveSlot(slots, passphrase) ==
  IF slots = <<>> THEN <<>>
  ELSE IF Head(slots) = passphrase THEN Tail(slots)
  ELSE <<Head(slots)>> \o RemoveSlot(Tail(slots), passphrase)

\* ------------------------------------------------------------------------
\* Command lines
\* ------------------------------------------------------------------------
Cmd(tag, argv, input, rc, n) ==
  [tag |-> tag, argv |-> argv, input |-> input, rc |-> rc, attempt |-> n]

CipherArgs(kw) ==
  (IF kw.cipher # None THEN <<"--cipher", kw.cipher>> ELSE <<>>)
  \o (IF kw.key_size # None THEN <<"--key-size", kw.key_size>> ELSE <<>>)

StatusArgv(name) == <<"cryptsetup", "status", name>>

\* variant: the create command reads its input as a prompt would
CreateArgvNoKeyFile(e, kw) ==
  <<"cryptsetup", "create">> \o CipherArgs(kw) \o <<e.dev_name, e.dev_path>>

CreateArgv(e, kw) ==
  <<"cryptsetup", "create", "--key-file=-">> \o CipherArgs(kw)
  \o <<e.dev_name, e.dev_path>>

LuksOpenArgv(e) ==
  <<"cryptsetup", "luksOpen", "--key-file=-", e.dev_path, e.dev_name>>

LuksFormatArgv(e, kw) ==
  <<"cryptsetup", "--batch-mode", "luksFormat", "--key-file=-">> \o CipherArgs(kw)
  \o <<e.dev_path>>

IsLuksArgv(device) == <<"cryptsetup", "isLuks", "--verbose", device>>

AddKeyArgv(e) == <<"cryptsetup", "luksAddKey", e.dev_path>>

AddKeyInput(mangled_passphrase, passphrase) ==
  mangled_passphrase \o "\n" \o passphrase \o "\n" \o passphrase

RemoveKeyArgv(e) == <<"cryptsetup", "luksRemoveKey", e.dev_path>>

LnArgv(e) ==
  <<"ln", "--symbolic", "--force", MapperPath(e.dev_name), PathStr(e.symlink_path)>>

\* variant: the mapping name is derived again when the mapping is closed
CloseArgvRederived(e) ==
  IF e.backend = "luks"
  THEN <<"cryptsetup", "luksClose", "crypt-" \o Basename(e.symlink_path)>>
  ELSE <<"cryptsetup", "remove", "crypt-" \o Basename(e.symlink_path)>>

CloseArgv(e) ==
  IF e.backend = "luks" THEN <<"cryptsetup", "luksClose", e.dev_name>>
  ELSE <<"cryptsetup", "remove", e.dev_name>>

UdevArgv(device) == <<"udevadm", "trigger", device>>

\* ------------------------------------------------------------------------
\* The lock of @synchronized('connect_volume')
\* ------------------------------------------------------------------------
\* lockutils.synchronized_with_prefix('os-brick-') with the name
\* 'connect_volume' and no external=True: a lock of the calling process
LockName(backend) ==
  (IF backend = "luks" THEN "os-brick-" ELSE "os-brick-") \o "connect_volume"

LockNames == {LockName(b) : b \in Backends}

LockFree(t) == lock[ProcOf(t)][LockName(enc[t].backend)] = "free"

\* variant: the call is entered without taking the lock
AcquireNothing(t) == lock

Acquire(t) == [lock EXCEPT ![ProcOf(t)][LockName(enc[t].backend)] = t]

\* variant: the lock is kept when the call ends
ReleaseNever(t) == lock

Release(t) == [lock EXCEPT ![ProcOf(t)][LockName(enc[t].backend)] = "free"]

\* ------------------------------------------------------------------------
\* Initial states
\* ------------------------------------------------------------------------
InitMappings == {NoMapping, [kind |-> "crypt", device |-> RawDev],
                 [kind |-> "other", device |-> None]}

InitHeaders(k) ==
  {NoHeader} \cup
  { [luks |-> TRUE, slots |-> s] :
      s \in { <<_get_passphrase(k)>>, <<_get_mangled_passphrase(k)>>,
              <<_get_mangled_passphrase(k), _get_passphrase(k)>>,
              <<ForeignPassphrase>> } }

InitWorld ==
  /\ \E v \in Volumes : key = v.key /\ options = v.options
  /\ \E mo \in InitMappings, mw \in InitMappings :
       mapper = [n \in Names |-> IF n = OldName THEN mo
                                 ELSE IF n = Wwn THEN mw ELSE NoMapping]
  /\ \E h \in InitHeaders(key) :
       hdr = [d \in Devices |-> IF d = RawDev THEN h ELSE NoHeader]
  /\ link = RawDev

InitThreads ==
  /\ lock = [p \in Procs |-> [n \in LockNames |-> "free"]]
  /\ ops = 0
  /\ ctors = 0
  /\ pc = [t \in Threads |-> "idle"]
  /\ enc = [t \in Threads |-> NoEnc]
  /\ call = [t \in Threads |-> NoCall]
  /\ log = [t \in Threads |-> <<>>]
  /\ err = [t \in Threads |-> NoErr]
  /\ ret = [t \in Threads |-> NoRet]
  /\ attempt = [t \in Threads |-> 1]
  /\ obs = [t \in Threads |-> NoObs]
  /\ start = [t \in Threads |-> NoHeader]
  /\ prev = [t \in Threads |-> NoPrev]

\* the worlds the concurrent callers start in: a fresh host with a volume
\* keyed by the mangled passphrase, and a host with mappings under the
\* older names
InitWorldConc ==
  /\ key = <<0, 171>>
  /\ options = [cipher |-> None, key_size |-> None]
  /\ link = RawDev
  /\ \/ /\ mapper = [n \in Names |-> NoMapping]
        /\ hdr = [d \in Devices |->
                    IF d = RawDev
                    THEN [luks |-> TRUE, slots |-> <<_get_mangled_passphrase(key)>>]
                    ELSE NoHeader]
     \/ /\ mapper = [n \in Names |->
                       IF n = OldName THEN [kind |-> "other", device |-> None]
                       ELSE IF n = Wwn THEN [kind |-> "crypt", device |-> RawDev]
                       ELSE NoMapping]
        /\ hdr = [d \in Devices |-> NoHeader]

Init ==
  /\ InitWorldConc /\ InitThreads /\ active = Threads
  /\ caller = [t \in Threads |-> NoCaller]

InitSeq ==
  /\ InitWorld /\ InitThreads /\ active = {"t1"}
  /\ caller = [t \in Threads |-> NoCaller]

\* a single caller that keeps its connection info from one encryptor to the
\* next
InitTrip ==
  /\ InitWorld /\ InitThreads /\ active = {"t1"}
  /\ caller = [t \in Threads |-> Keeper]

\* ------------------------------------------------------------------------
\* Steps shared by the operations
\* ------------------------------------------------------------------------
\* the positions at which an operation has just ended; its caller looks at
\* the outcome before anything else happens on the host
Observed == {"constructed", "ctor_raised", "done"}

Quiet == \A t \in Threads : pc[t] \notin Observed

\* thread t is about to run the code at label
At(t, label) == Quiet /\ pc[t] = label

Execute(t, c) == log' = [log EXCEPT ![t] = Append(@, c)]

Goto(t, label) ==
  /\ pc' = [pc EXCEPT ![t] = label]
  /\ UNCHANGED <<err, lock>>

\* the call returns normally: the synchronized decorator releases the lock
Return(t) ==
  /\ pc' = [pc EXCEPT ![t] = "done"]
  /\ lock' = Release(t)
  /\ UNCHANGED err

\* ProcessExecutionError of the at-th command of the call leaves the call
Raise(t, rc, at) ==
  /\ pc' = [pc EXCEPT ![t] = "done"]
  /\ err' = [err EXCEPT ![t] = [exc |-> "ProcessExecutionError", rc |-> rc, at |-> at]]
  /\ lock' = Release(t)

Opened(e, rc) ==
  IF rc = 0
  THEN [mapper EXCEPT ![e.dev_name] = [kind |-> "crypt", device |-> e.dev_path]]
  ELSE mapper

\* os.path.realpath(symlink_path)
Realpath(symlink_path) == link

\* ------------------------------------------------------------------------
\* CryptsetupEncryptor.__init__
\* ------------------------------------------------------------------------
\* wwn is a local of __init__: the object does not keep it
CtorFinish(e) ==
  [pc |-> "constructed",
   enc |-> [e EXCEPT !.dev_path = Realpath(e.symlink_path), !.multipath_id = None]]

\* variant: the multipath identifier is tried even when it equals the basename
CtorWwnUnchecked(e) ==
  LET wwn == e.multipath_id
  IN IF wwn # None /\ MapperExists(wwn)
     THEN [pc |-> "init_status_wwn", enc |-> e]
     ELSE CtorFinish(e)

\* the elif branch: the multipath identifier as the mapping name
CtorWwn(e) ==
  LET old_dev_name == Basename(e.symlink_path)
      wwn == e.multipath_id
  IN IF wwn # None /\ wwn # old_dev_name /\ MapperExists(wwn)
     THEN [pc |-> "init_status_wwn", enc |-> e]
     ELSE CtorFinish(e)

\* the caller constructs an encryptor from conn: one constructed from the
\* connection info of the last normal attach is the fresh encryptor for it
Constructing(c, conn) ==
  IF ~c.keeps THEN c
  ELSE IF c.attached # None /\ conn = c.conn
  THEN [c EXCEPT !.fresh = TRUE]
  ELSE [c EXCEPT !.conn = conn, !.attached = None, !.fresh = FALSE]

\* the caller after a call: it remembers an attach that returned normally
Called(c, kind, exc, dev_name) ==
  IF ~c.keeps THEN c
  ELSE [c EXCEPT !.attached = IF kind = "attach" /\ exc = None THEN dev_name ELSE None,
                 !.fresh = FALSE]

\* variant: the constructor without the device_path test
DevicePathUnchecked(conn) == FALSE

\* not data.get('device_path'): the key is absent or its value is empty
DevicePathMissing(conn) == conn.device_path = <<>>

Construct(t) ==
  /\ t \in active
  /\ Quiet
  /\ pc[t] \in {"idle", "ready"}
  /\ ctors < MaxCtors
  /\ ctors' = ctors + 1
  /\ \E backend \in Backends, conn \in ConnInfos :
       /\ caller' = [caller EXCEPT ![t] = Constructing(@, conn)]
       /\ IF DevicePathMissing(conn)
          THEN /\ pc' = [pc EXCEPT ![t] = "ctor_raised"]
               /\ enc' = [enc EXCEPT ![t] = NoEnc]
               /\ err' = [err EXCEPT ![t] =
                            [exc |-> "VolumeEncryptionNotSupported", rc |-> 0, at |-> 0]]
               /\ obs' = [obs EXCEPT ![t] = NoObs]
          ELSE LET old_dev_name == Basename(conn.device_path)
                   e == [backend |-> backend,
                         symlink_path |-> conn.device_path,
                         dev_name |-> "crypt-" \o old_dev_name,
                         dev_path |-> None,
                         multipath_id |-> conn.multipath_id]
                   nxt == IF MapperExists(old_dev_name)
                          THEN [pc |-> "init_status_old", enc |-> e]
                          ELSE CtorWwn(e)
               IN /\ pc' = [pc EXCEPT ![t] = nxt.pc]
                  /\ enc' = [enc EXCEPT ![t] = nxt.enc]
                  /\ err' = [err EXCEPT ![t] = NoErr]
                  /\ obs' = [obs EXCEPT ![t] =
                               [device_path |-> conn.device_path,
                                wwn |-> conn.multipath_id,
                                oldExists |-> MapperExists(old_dev_name), oldRc |-> -1,
                                wwnExists |-> conn.multipath_id # None
                                              /\ MapperExists(conn.multipath_id),
                                wwnRc |-> -1]]
  /\ log' = [log EXCEPT ![t] = <<>>]
  /\ call' = [call EXCEPT ![t] = NoCall]
  /\ prev' = [prev EXCEPT ![t] = NoPrev]
  /\ UNCHANGED <<world, lock, active, ops, ret, attempt, start>>

\* _is_crypt_device_available(old_dev_name): cryptsetup status
InitStatusOld(t) ==
  /\ At(t, "init_status_old")
  /\ LET e == enc[t]
         old_dev_name == Basename(e.symlink_path)
     IN \E rc \in StatusCodes(old_dev_name) :
          LET nxt == IF rc = 0
                     THEN CtorFinish([e EXCEPT !.dev_name = old_dev_name])
                     ELSE CtorWwn(e)
          IN /\ Execute(t, Cmd("status", StatusArgv(old_dev_name), None, rc, 1))
             /\ pc' = [pc EXCEPT ![t] = nxt.pc]
             /\ enc' = [enc EXCEPT ![t] = nxt.enc]
             /\ obs' = [obs EXCEPT ![t] =
                          [@ EXCEPT !.oldRc = rc,
                                    !.wwnExists = e.multipath_id # None
                                                  /\ MapperExists(e.multipath_id)]]
  /\ UNCHANGED <<world, lock, active, ops, ctors, call, err, ret, attempt, start, prev,
                  caller>>

\* _is_crypt_device_available(wwn): cryptsetup status
InitStatusWwn(t) ==
  /\ At(t, "init_status_wwn")
  /\ LET e == enc[t]
         wwn == e.multipath_id
     IN \E rc \in StatusCodes(wwn) :
          LET nxt == CtorFinish(IF rc = 0 THEN [e EXCEPT !.dev_name = wwn] ELSE e)
          IN /\ Execute(t, Cmd("status", StatusArgv(wwn), None, rc, 1))
             /\ pc' = [pc EXCEPT ![t] = nxt.pc]
             /\ enc' = [enc EXCEPT ![t] = nxt.enc]
             /\ obs' = [obs EXCEPT ![t] = [@ EXCEPT !.wwnRc = rc]]
  /\ UNCHANGED <<world, lock, active, ops, ctors, call, err, ret, attempt, start, prev,
                  caller>>

\* ------------------------------------------------------------------------
\* The command runner: processutils.execute(check_exit_code, attempts)
\* ------------------------------------------------------------------------
\* variant: one attempt more than asked for
OutcomeOneMore(rc, accepted, n, attempts) ==
  IF rc \in accepted THEN "ok"
  ELSE IF n <= attempts THEN "retry"
  ELSE "raise"

Outcome(rc, accepted, n, attempts) ==
  IF rc \in accepted THEN "ok"
  ELSE IF n < attempts THEN "retry"
  ELSE "raise"

\* ------------------------------------------------------------------------
\* attach_volume / detach_volume: entry under @synchronized('connect_volume')
\* ------------------------------------------------------------------------
callFrame == <<key, options, active, ops, ctors, enc, call, obs, start, prev, caller>>

StartCall(t, kind, first) ==
  /\ At(t, "ready")
  /\ ops < MaxCalls
  /\ LockFree(t)
  /\ lock' = Acquire(t)
  /\ ops' = ops + 1
  /\ call' = [call EXCEPT ![t] = [kind |-> kind]]
  /\ pc' = [pc EXCEPT ![t] = first]
  /\ log' = [log EXCEPT ![t] = <<>>]
  /\ err' = [err EXCEPT ![t] = NoErr]
  /\ attempt' = [attempt EXCEPT ![t] = 1]
  /\ start' = [start EXCEPT ![t] = hdr[enc[t].dev_path]]
  /\ ret' = [ret EXCEPT ![t] =
               IF kind = "detach" THEN [to |-> "return", device |-> None] ELSE NoRet]
  /\ UNCHANGED <<world, active, ctors, enc, obs, prev, caller>>

StartAttach(t) ==
  /\ t \in active
  /\ StartCall(t, "attach", "attach_open")

StartDetach(t) ==
  /\ t \in active
  /\ StartCall(t, "detach", "close_status")

\* ------------------------------------------------------------------------
\* attach_volume, both backends: the first _open_volume(passphrase)
\* ------------------------------------------------------------------------
OpenArgv(e, kw) == IF e.backend = "luks" THEN LuksOpenArgv(e) ELSE CreateArgv(e, kw)

\* variant: LUKS migrates whenever the open succeeded
AfterFirstOpenMigrateOnSuccess(backend, rc) ==
  IF backend = "luks"
  THEN (IF rc = 0 THEN "unmangle_open"
        ELSE IF rc = 1 THEN "is_luks"
        ELSE IF rc = 2 THEN "unmangle_open"
        ELSE "raise")
  ELSE (IF rc = 0 THEN "ln"
        ELSE IF rc = 2 THEN "attach_open_mangled" ELSE "ln")

\* variant: raw retries with the mangled passphrase after any failure
AfterFirstOpenRetryAlways(backend, rc) ==
  IF rc = 0 THEN "ln"
  ELSE IF backend = "luks"
       THEN (IF rc = 1 THEN "is_luks"
             ELSE IF rc = 2 THEN "unmangle_open"
             ELSE "raise")
       ELSE "attach_open_mangled"

\* variant: LUKS swallows the other first-open failures as raw does
AfterFirstOpenSwallow(backend, rc) ==
  IF rc = 0 THEN "ln"
  ELSE IF backend = "luks"
       THEN (IF rc = 1 THEN "is_luks"
             ELSE IF rc = 2 THEN "unmangle_open"
             ELSE "ln")
       ELSE (IF rc = 2 THEN "attach_open_mangled" ELSE "ln")

\* what attach_volume does with the exit code of its first open
AfterFirstOpen(backend, rc) ==
  IF rc = 0 THEN "ln"
  ELSE IF backend = "luks"
       THEN (IF rc = 1 THEN "is_luks"
             ELSE IF rc = 2 THEN "unmangle_open"
             ELSE "raise")
       ELSE (IF rc = 2 THEN "attach_open_mangled" ELSE "ln")

AttachOpen(t) ==
  /\ At(t, "attach_open")
  /\ LET e == enc[t]
         passphrase == _get_passphrase(key)
     IN \E rc \in OpenCodes(e.backend, e.dev_path, e.dev_name, passphrase) :
          /\ Execute(t, Cmd("open", OpenArgv(e, options), passphrase, rc, 1))
          /\ mapper' = Opened(e, rc)
          /\ LET nxt == AfterFirstOpen(e.backend, rc)
             IN IF nxt = "raise" THEN Raise(t, rc, 1) ELSE Goto(t, nxt)
  /\ UNCHANGED <<hdr, link, ret, attempt, callFrame>>

\* raw backend: _open_volume(_get_mangled_passphrase(key)) after exit code 2
AfterMangledOpen(rc) == IF rc = 0 THEN "ln" ELSE "raise"

AttachOpenMangled(t) ==
  /\ At(t, "attach_open_mangled")
  /\ LET e == enc[t]
         mangled == _get_mangled_passphrase(key)
     IN \E rc \in OpenCodes(e.backend, e.dev_path, e.dev_name, mangled) :
          /\ Execute(t, Cmd("open_mangled", OpenArgv(e, options), mangled, rc, 1))
          /\ mapper' = Opened(e, rc)
          /\ IF AfterMangledOpen(rc) = "raise"
             THEN Raise(t, rc, Len(log[t]) + 1)
             ELSE Goto(t, "ln")
  /\ UNCHANGED <<hdr, link, ret, attempt, callFrame>>

\* ln --symbolic --force /dev/mapper/<dev_name> <symlink_path>
Ln(t) ==
  /\ At(t, "ln")
  /\ LET e == enc[t]
     IN \E rc \in LnCodes :
          /\ Execute(t, Cmd("ln", LnArgv(e), None, rc, 1))
          /\ link' = IF rc = 0 THEN MapperPath(e.dev_name) ELSE link
          /\ IF rc = 0 THEN Return(t) ELSE Raise(t, rc, Len(log[t]) + 1)
  /\ UNCHANGED <<mapper, hdr, ret, attempt, callFrame>>

\* ------------------------------------------------------------------------
\* _close_volume: _get_backend_device, remove / luksClose, udevadm trigger
\* ------------------------------------------------------------------------
\* the loop over the lines of stdout
RECURSIVE BackendDevice(_, _)
BackendDevice(lines, exists) ==
  IF lines = <<>> THEN None
  ELSE LET fields == Head(lines)
       IN IF Len(fields) = 2 /\ fields[1] = "device:"
             /\ fields[2] # "" /\ fields[2] \in exists
          THEN fields[2]
          ELSE BackendDevice(Tail(lines), exists)

_get_backend_device(stdout, exists) ==
  IF stdout = <<>> THEN None ELSE BackendDevice(stdout, exists)

\* variant: only exit code 0 accepted from status and close
CloseAcceptedOnlyZero == {0}

\* the accepted exit codes of status and of remove / luksClose
CloseAccepted == {0, 4}

CloseAttempts(backend) == IF backend = "luks" THEN 3 ELSE 1

CloseDone(t) == IF ret[t].to = "return" THEN Return(t) ELSE Goto(t, ret[t].to)

CloseStatus(t) ==
  /\ At(t, "close_status")
  /\ LET e == enc[t]
     IN \E rc \in StatusCodes(e.dev_name), present \in SUBSET {RawDev} :
          LET exists == present \cup {d \in Devices \ {RawDev} : DevExists(d)}
              device == _get_backend_device(StatusStdout(e.dev_name, rc), exists)
          IN /\ Execute(t, Cmd("status", StatusArgv(e.dev_name), None, rc, 1))
             /\ IF rc \notin CloseAccepted
                THEN Raise(t, rc, Len(log[t]) + 1) /\ UNCHANGED ret
                ELSE IF device = None
                THEN CloseDone(t) /\ UNCHANGED ret
                ELSE /\ Goto(t, "close_remove")
                     /\ ret' = [ret EXCEPT ![t].device = device]
  /\ UNCHANGED <<mapper, hdr, link, attempt, callFrame>>

CloseRemove(t) ==
  /\ At(t, "close_remove")
  /\ LET e == enc[t]
     IN \E rc \in RemoveCodes(e.dev_name) :
          LET out == Outcome(rc, CloseAccepted, attempt[t], CloseAttempts(e.backend))
          IN /\ Execute(t, Cmd("close", CloseArgv(e), None, rc, attempt[t]))
             /\ mapper' = IF rc = 0 THEN [mapper EXCEPT ![e.dev_name] = NoMapping]
                          ELSE mapper
             /\ attempt' = [attempt EXCEPT ![t] = IF out = "retry" THEN @ + 1 ELSE 1]
             /\ CASE out = "ok" -> Goto(t, "restore_links")
                  [] out = "retry" -> Goto(t, "close_remove")
                  [] OTHER -> Raise(t, rc, Len(log[t]) + 1)
  /\ UNCHANGED <<hdr, link, ret, callFrame>>

\* _restore_device_links: udevadm trigger, exit code ignored
RestoreLinks(t) ==
  /\ At(t, "restore_links")
  /\ \E rc \in UdevCodes :
       /\ Execute(t, Cmd("udevadm", UdevArgv(ret[t].device), None, rc, 1))
       /\ link' = IF rc = 0 /\ ret[t].device = RawDev THEN RawDev ELSE link
       /\ CloseDone(t)
  /\ UNCHANGED <<mapper, hdr, ret, attempt, callFrame>>

\* ------------------------------------------------------------------------
\* LuksEncryptor.attach_volume: first use, and the mangled passphrase
\* ------------------------------------------------------------------------
\* variant: the isLuks verdict inverted
is_luksInverted(rc) == rc # 0

\* is_luks(): any failure of cryptsetup isLuks reads as "not LUKS"
is_luks(rc) == rc = 0

IsLuks(t) ==
  /\ At(t, "is_luks")
  /\ LET e == enc[t]
     IN \E rc \in IsLuksCodes(e.dev_path) :
          /\ Execute(t, Cmd("isLuks", IsLuksArgv(e.dev_path), None, rc, 1))
          /\ IF ~is_luks(rc)
             THEN Goto(t, "format")
             ELSE Raise(t, log[t][1].rc, 1)
  /\ UNCHANGED <<mapper, hdr, link, ret, attempt, callFrame>>

FormatAttempts == 3

\* _format_volume(passphrase): cryptsetup luksFormat, attempts=3
Format(t) ==
  /\ At(t, "format")
  /\ LET e == enc[t]
         passphrase == _get_passphrase(key)
     IN \E rc \in FormatCodes(e.dev_path) :
          LET out == Outcome(rc, {0}, attempt[t], FormatAttempts)
          IN /\ Execute(t, Cmd("format", LuksFormatArgv(e, options), passphrase, rc,
                               attempt[t]))
             /\ hdr' = IF rc = 0
                       THEN [hdr EXCEPT ![e.dev_path] =
                               [luks |-> TRUE, slots |-> <<passphrase>>]]
                       ELSE hdr
             /\ attempt' = [attempt EXCEPT ![t] = IF out = "retry" THEN @ + 1 ELSE 1]
             /\ CASE out = "ok" -> Goto(t, "open_formatted")
                  [] out = "retry" -> Goto(t, "format")
                  [] OTHER -> Raise(t, rc, Len(log[t]) + 1)
  /\ UNCHANGED <<mapper, link, ret, callFrame>>

\* variant: the mangled slot is removed without verifying the added key
UnmangleNextUnverified(step) ==
  CASE step = "unmangle_open" -> "unmangle_add_key"
    [] step = "unmangle_add_key" -> "unmangle_remove_key"
    [] step = "unmangle_verify" -> "unmangle_remove_key"
    [] step = "unmangle_remove_key" -> "open_unmangled"
    [] OTHER -> "ln"

\* the order of the statements of _unmangle_volume; the open after it
UnmangleNext(step) ==
  CASE step = "unmangle_open" -> "unmangle_add_key"
    [] step = "unmangle_add_key" -> "unmangle_verify"
    [] step = "unmangle_verify" -> "unmangle_remove_key"
    [] step = "unmangle_remove_key" -> "open_unmangled"
    [] OTHER -> "ln"

\* an _open_volume(passphrase) whose failure leaves the call, then the label
LuksOpenStep(t, from, tag, passphrase, to) ==
  /\ At(t, from)
  /\ LET e == enc[t]
     IN \E rc \in OpenCodes(e.backend, e.dev_path, e.dev_name, passphrase) :
          /\ Execute(t, Cmd(tag, LuksOpenArgv(e), passphrase, rc, 1))
          /\ mapper' = Opened(e, rc)
          /\ IF rc = 0 THEN Goto(t, to) ELSE Raise(t, rc, Len(log[t]) + 1)

\* the open that follows _format_volume
OpenFormatted(t) ==
  /\ LuksOpenStep(t, "open_formatted", "open", _get_passphrase(key), "ln")
  /\ UNCHANGED <<hdr, link, ret, attempt, callFrame>>

\* _unmangle_volume: open with the mangled passphrase, then _close_volume
UnmangleOpen(t) ==
  /\ LuksOpenStep(t, "unmangle_open", "open_mangled", _get_mangled_passphrase(key),
                  "close_status")
  /\ ret' = [ret EXCEPT ![t] = [to |-> UnmangleNext("unmangle_open"), device |-> None]]
  /\ UNCHANGED <<hdr, link, attempt, callFrame>>

\* _unmangle_volume: cryptsetup luksAddKey
UnmangleAddKey(t) ==
  /\ At(t, "unmangle_add_key")
  /\ LET e == enc[t]
         passphrase == _get_passphrase(key)
         mangled_passphrase == _get_mangled_passphrase(key)
     IN \E rc \in AddKeyCodes(e.dev_path, mangled_passphrase) :
          /\ Execute(t, Cmd("luksAddKey", AddKeyArgv(e),
                            AddKeyInput(mangled_passphrase, passphrase), rc, 1))
          /\ hdr' = IF rc = 0
                    THEN [hdr EXCEPT ![e.dev_path].slots = Append(@, passphrase)]
                    ELSE hdr
          /\ IF rc = 0 THEN Goto(t, UnmangleNext("unmangle_add_key"))
             ELSE Raise(t, rc, Len(log[t]) + 1)
  /\ UNCHANGED <<mapper, link, ret, attempt, callFrame>>

\* _unmangle_volume: open with the current passphrase, then _close_volume
UnmangleVerify(t) ==
  /\ LuksOpenStep(t, "unmangle_verify", "open", _get_passphrase(key), "close_status")
  /\ ret' = [ret EXCEPT ![t] =
               [to |-> UnmangleNext("unmangle_verify"), device |-> None]]
  /\ UNCHANGED <<hdr, link, attempt, callFrame>>

\* _unmangle_volume: cryptsetup luksRemoveKey
UnmangleRemoveKey(t) ==
  /\ At(t, "unmangle_remove_key")
  /\ LET e == enc[t]
         mangled_passphrase == _get_mangled_passphrase(key)
     IN \E rc \in RemoveKeyCodes(e.dev_path, mangled_passphrase) :
          /\ Execute(t, Cmd("luksRemoveKey", RemoveKeyArgv(e), mangled_passphrase, rc, 1))
          /\ hdr' = IF rc = 0
                    THEN [hdr EXCEPT ![e.dev_path].slots =
                            RemoveSlot(@, mangled_passphrase)]
                    ELSE hdr
          /\ IF rc = 0 THEN Goto(t, UnmangleNext("unmangle_remove_key"))
             ELSE Raise(t, rc, Len(log[t]) + 1)
  /\ UNCHANGED <<mapper, link, ret, attempt, callFrame>>

\* attach_volume: the open that follows _unmangle_volume
OpenUnmangled(t) ==
  /\ LuksOpenStep(t, "open_unmangled", "open", _get_passphrase(key),
                  UnmangleNext("open_unmangled"))
  /\ UNCHANGED <<hdr, link, ret, attempt, callFrame>>

\* ------------------------------------------------------------------------
\* Specifications
\* ------------------------------------------------------------------------
\* the caller has looked at the outcome of the operation: the command log,
\* the exception and the constructor's observations are dropped
\* the call found the mapping inactive, or removed it
Gone(l) ==
  \E i \in 1..Len(l) :
    \/ l[i].tag = "status" /\ l[i].rc = 4
    \/ l[i].tag = "close" /\ l[i].rc \in {0, 4}

Forget(t) ==
  /\ pc[t] \in Observed
  /\ pc' = [pc EXCEPT ![t] = IF pc[t] = "ctor_raised" THEN "idle" ELSE "ready"]
  /\ prev' = [prev EXCEPT ![t] =
                IF pc[t] = "done"
                THEN [kind |-> call[t].kind, exc |-> err[t].exc, gone |-> Gone(log[t])]
                ELSE NoPrev]
  /\ caller' = [caller EXCEPT ![t] =
                  IF pc[t] = "done"
                  THEN Called(@, call[t].kind, err[t].exc, enc[t].dev_name)
                  ELSE @]
  /\ log' = [log EXCEPT ![t] = <<>>]
  /\ err' = [err EXCEPT ![t] = NoErr]
  /\ obs' = [obs EXCEPT ![t] = NoObs]
  /\ call' = [call EXCEPT ![t] = NoCall]
  /\ start' = [start EXCEPT ![t] = NoHeader]
  /\ UNCHANGED <<world, lock, active, ops, ctors, enc, ret, attempt>>

Next ==
  \E t \in Threads :
    \/ Forget(t)
    \/ Construct(t)
    \/ InitStatusOld(t)
    \/ InitStatusWwn(t)
    \/ StartAttach(t)
    \/ StartDetach(t)
    \/ AttachOpen(t)
    \/ AttachOpenMangled(t)
    \/ IsLuks(t)
    \/ Format(t)
    \/ OpenFormatted(t)
    \/ UnmangleOpen(t)
    \/ UnmangleAddKey(t)
    \/ UnmangleVerify(t)
    \/ UnmangleRemoveKey(t)
    \/ OpenUnmangled(t)
    \/ Ln(t)
    \/ CloseStatus(t)
    \/ CloseRemove(t)
    \/ RestoreLinks(t)

\* threads of two processes
Spec == Init /\ [][Next]_vars

\* a single caller
SpecSeq == InitSeq /\ [][Next]_vars

\* one caller that constructs a fresh encryptor for a volume it has attached
SpecTrip == InitTrip /\ [][Next]_vars

\* ------------------------------------------------------------------------
\* Vocabulary of the properties
\* ------------------------------------------------------------------------
Done(t) == pc[t] = "done"

Raised(t) == err[t].exc # None

RawAttach(t) == call[t].kind = "attach" /\ enc[t].backend = "cryptsetup"

LuksAttach(t) == call[t].kind = "attach" /\ enc[t].backend = "luks"

Detach(t) == call[t].kind = "detach"

\* the thread is inside attach_volume or detach_volume
InFlight(t) == \E p \in Procs, n \in LockNames : lock[p][n] = t

Indices(l, tags) == {i \in 1..Len(l) : l[i].tag \in tags}

\* the error of the call is the failure of its at-th command, unchanged
Propagated(t, at) ==
  err[t] = [exc |-> "ProcessExecutionError", rc |-> log[t][at].rc, at |-> at]

\* ------------------------------------------------------------------------
\* C1: at most one attach_volume or detach_volume call is in flight on the
\* host at any time, whatever the encryptors and whatever the processes the
\* calls are made from.
\* ------------------------------------------------------------------------
C1_OneCallInFlight == Cardinality({t \in Threads : InFlight(t)}) <= 1

\* ------------------------------------------------------------------------
\* C2: of two detach_volume calls in succession on the same encryptor, the
\* second never raises, whether or not the first removed the mapping.
\* ------------------------------------------------------------------------
SecondDetach(t) == Done(t) /\ Detach(t) /\ prev[t].kind = "detach"

C2_SecondDetachNeverRaises == \A t \in Threads : SecondDetach(t) => ~Raised(t)

\* C2 as amended: when the first call removed the mapping or found it
\* inactive, the second call runs the status query alone, finds the mapping
\* inactive and returns normally.
C2_SecondDetachAfterRemoval ==
  \A t \in Threads :
    SecondDetach(t) /\ prev[t].gone =>
      /\ ~Raised(t)
      /\ Len(log[t]) = 1
      /\ log[t][1].tag = "status"
      /\ log[t][1].argv = StatusArgv(enc[t].dev_name)
      /\ log[t][1].rc = 4

C2_Witness ==
  \E t \in Threads : SecondDetach(t) /\ prev[t].gone /\ prev[t].exc = None /\ ~Raised(t)

\* ------------------------------------------------------------------------
\* C3: raw attach_volume: a first open that fails with an exit code other
\* than 2 propagates to the caller and no ln is issued; ln is issued only
\* after an open has succeeded.
\* ------------------------------------------------------------------------
C3_RawOpenFailurePropagates ==
  \A t \in Threads :
    RawAttach(t) /\ Len(log[t]) >= 1 =>
      /\ log[t][1].rc \notin {0, 2} =>
           /\ Indices(log[t], {"ln"}) = {}
           /\ Done(t) /\ Propagated(t, 1)
      /\ \A i \in Indices(log[t], {"ln"}) :
           \E j \in Indices(log[t], {"open", "open_mangled"}) :
             j < i /\ log[t][j].rc = 0

\* ------------------------------------------------------------------------
\* C4: LUKS attach_volume, first use: after a first open exiting 1 and an
\* isLuks that reports not-LUKS, format is invoked once with the current
\* passphrase, one further open with that passphrase follows, and ln is
\* issued only if that open succeeds; when isLuks reports LUKS, format is
\* not invoked and the exit-1 failure propagates.
\* ------------------------------------------------------------------------
FirstUseShape(t) ==
  LET l == log[t]
      e == enc[t]
      p == _get_passphrase(key)
      fm == Indices(l, {"format"})
      k == Cardinality(fm)
  IN /\ Len(l) = 2 => pc[t] = "format"
     /\ Len(l) >= 3 => k >= 1
     /\ fm = 3..(2 + k)
     /\ \A i \in fm :
          /\ l[i].attempt = i - 2
          /\ l[i].input = p
          /\ l[i].argv = LuksFormatArgv(e, options)
          /\ i < 2 + k => l[i].rc # 0
     /\ Len(l) <= k + 4
     /\ Len(l) = k + 2 /\ k >= 1 /\ l[k + 2].rc = 0 => pc[t] = "open_formatted"
     /\ Len(l) >= k + 3 =>
          /\ l[k + 2].rc = 0
          /\ l[k + 3].tag = "open"
          /\ l[k + 3].input = p
          /\ l[k + 3].argv = LuksOpenArgv(e)
     /\ Len(l) = k + 4 => l[k + 3].rc = 0 /\ l[k + 4].tag = "ln"
     /\ Done(t) /\ ~Raised(t) => Len(l) = k + 4 /\ l[k + 4].rc = 0

C4_FirstUse ==
  \A t \in Threads :
    LuksAttach(t) /\ Len(log[t]) >= 1 /\ log[t][1].rc = 1 =>
      /\ Len(log[t]) = 1 => pc[t] = "is_luks"
      /\ Len(log[t]) >= 2 =>
           /\ log[t][2].tag = "isLuks"
           /\ log[t][2].argv = IsLuksArgv(enc[t].dev_path)
           /\ IF log[t][2].rc = 0
              THEN Len(log[t]) = 2 /\ Done(t) /\ Propagated(t, 1)
              ELSE FirstUseShape(t)

C4_Witness ==
  \E t \in Threads :
    /\ LuksAttach(t) /\ Done(t) /\ ~Raised(t)
    /\ Len(log[t]) = 5
    /\ log[t][1].rc = 1 /\ log[t][2].tag = "isLuks" /\ log[t][2].rc = 1
    /\ log[t][3].tag = "format" /\ log[t][3].rc = 0

\* ------------------------------------------------------------------------
\* C5: LUKS attach_volume never issues luksFormat against a device that
\* carries a LUKS header, whatever the first open and isLuks exited with.
\* ------------------------------------------------------------------------
IssuesFormat(t) ==
  /\ Len(log'[t]) = Len(log[t]) + 1
  /\ log'[t][Len(log'[t])].tag = "format"

C5_NeverFormatsLuksDevice ==
  [][\A t \in Threads : IssuesFormat(t) => ~hdr[enc[t].dev_path].luks]_vars

\* ------------------------------------------------------------------------
\* C6: LUKS attach_volume after a first open exiting 2 runs, in this order:
\* open with the mangled passphrase, close, luksAddKey, open with the
\* current passphrase, close, luksRemoveKey, open with the current
\* passphrase, ln; the first failing step ends the call.
\* ------------------------------------------------------------------------
KindOf(c) == IF c.tag \in {"status", "close", "udevadm"} THEN "close" ELSE c.tag

\* the operations of a command log: the commands of one _close_volume are one
RECURSIVE Collapse(_)
Collapse(l) ==
  IF l = <<>> THEN <<>>
  ELSE LET rest == Collapse(Tail(l))
           k == KindOf(Head(l))
       IN IF k = "close" /\ rest # <<>> /\ Head(rest) = "close"
          THEN rest
          ELSE <<k>> \o rest

MigrationOrder ==
  <<"open", "open_mangled", "close", "luksAddKey", "open", "close", "luksRemoveKey",
    "open", "ln">>

IsPrefix(a, b) == Len(a) <= Len(b) /\ \A i \in 1..Len(a) : a[i] = b[i]

\* the command made its operation fail
Failing(c) ==
  CASE c.tag = "udevadm" -> FALSE
    [] c.tag = "status" -> c.rc \notin {0, 4}
    [] c.tag = "close" -> c.rc \notin {0, 4} /\ c.attempt = 3
    [] c.tag = "format" -> c.rc # 0 /\ c.attempt = 3
    [] OTHER -> c.rc # 0

C6_MigrationOrder ==
  \A t \in Threads :
    LuksAttach(t) /\ Len(log[t]) >= 1 /\ log[t][1].rc = 2 =>
      LET l == log[t]
          p == _get_passphrase(key)
          m == _get_mangled_passphrase(key)
      IN /\ IsPrefix(Collapse(l), MigrationOrder)
         /\ Len(l) = 1 => pc[t] = "unmangle_open"
         /\ \A i \in 2..Len(l) :
              /\ Failing(l[i]) => i = Len(l) /\ Done(t) /\ Propagated(t, i)
              /\ l[i].tag = "open_mangled" =>
                   l[i].input = m /\ l[i].argv = LuksOpenArgv(enc[t])
              /\ l[i].tag = "open" =>
                   l[i].input = p /\ l[i].argv = LuksOpenArgv(enc[t])
              /\ l[i].tag = "luksAddKey" =>
                   l[i].input = m \o "\n" \o p \o "\n" \o p
              /\ l[i].tag = "luksRemoveKey" => l[i].input = m
         /\ Done(t) =>
              IF Raised(t) THEN Len(l) >= 2 /\ Failing(l[Len(l)])
              ELSE Collapse(l) = MigrationOrder /\ l[Len(l)].rc = 0

C6_Witness ==
  \E t \in Threads :
    /\ LuksAttach(t) /\ Done(t) /\ ~Raised(t)
    /\ log[t][1].rc = 2
    /\ Collapse(log[t]) = MigrationOrder

\* ------------------------------------------------------------------------
\* C7: after a migration interrupted between luksAddKey and luksRemoveKey
\* (both key slots in the header), a later attach_volume re-runs the
\* migration, so that the mangled key slot is removed.
\* ------------------------------------------------------------------------
SlotIn(h, passphrase) ==
  h.luks /\ \E i \in 1..Len(h.slots) : h.slots[i] = passphrase

BothSlots(h) ==
  /\ _get_passphrase(key) # _get_mangled_passphrase(key)
  /\ SlotIn(h, _get_passphrase(key))
  /\ SlotIn(h, _get_mangled_passphrase(key))

Constructed(t) == pc[t] = "constructed"

ResolvedName(t) ==
  LET B == Basename(enc[t].symlink_path)
      W == obs[t].wwn
  IN IF obs[t].oldExists /\ obs[t].oldRc = 0 THEN B
     ELSE IF W # None /\ W # B /\ obs[t].wwnExists /\ obs[t].wwnRc = 0 THEN W
     ELSE "crypt-" \o B

C8_NameResolution ==
  \A t \in Threads :
    Constructed(t) =>
      /\ enc[t].dev_name = ResolvedName(t)
      /\ obs[t].oldRc # -1 <=> obs[t].oldExists
      /\ \A i \in 1..Len(log[t]) : log[t][i].tag = "status"

\* the multipath identifier is taken though the basename is mapped: its
\* status query did not exit 0
C8_Witness ==
  \E t \in Threads :
    /\ Constructed(t)
    /\ obs[t].oldExists /\ obs[t].oldRc \notin {-1, 0}
    /\ enc[t].dev_name = Wwn

\* ------------------------------------------------------------------------
\* C9: raw attach_volume opens with the mangled passphrase only after the
\* open with the current passphrase exited 2 in the same call, and at most
\* once per call.
\* ------------------------------------------------------------------------
C9_MangledOnlyAfterExit2 ==
  \A t \in Threads :
    RawAttach(t) =>
      /\ Len(log[t]) >= 1 =>
           /\ log[t][1].tag = "open"
           /\ log[t][1].input = _get_passphrase(key)
      /\ \A i \in Indices(log[t], {"open_mangled"}) :
           /\ i = 2
           /\ log[t][1].rc = 2
           /\ log[t][i].input = _get_mangled_passphrase(key)
           /\ log[t][i].argv = log[t][1].argv
      /\ Cardinality(Indices(log[t], {"open_mangled"})) <= 1

C9_Witness ==
  \E t \in Threads :
    /\ RawAttach(t) /\ Done(t) /\ ~Raised(t)
    /\ Len(log[t]) = 3
    /\ log[t][1].rc = 2
    /\ log[t][2].tag = "open_mangled" /\ log[t][2].rc = 0
    /\ log[t][2].input # log[t][1].input

\* ------------------------------------------------------------------------
\* C10: LUKS attach_volume: a first-open failure that is neither exit code 1
\* with isLuks reporting not-LUKS nor exit code 2 propagates unchanged; ln
\* is issued only after the most recent open succeeded; a call that returns
\* normally has issued ln.
\* ------------------------------------------------------------------------
Opens(l, i) == {j \in Indices(l, {"open", "open_mangled"}) : j < i}

Max(S) == CHOOSE x \in S : \A y \in S : y <= x

C10_LuksFailurePropagates ==
  \A t \in Threads :
    LuksAttach(t) /\ Len(log[t]) >= 1 =>
      LET l == log[t]
      IN /\ l[1].tag = "open"
         /\ l[1].rc \notin {0, 1, 2} => Len(l) = 1 /\ Done(t) /\ Propagated(t, 1)
         /\ l[1].rc = 1 /\ Len(l) >= 2 /\ l[2].rc = 0 =>
              Len(l) = 2 /\ Done(t) /\ Propagated(t, 1)
         /\ \A i \in Indices(l, {"ln"}) :
              /\ Opens(l, i) # {}
              /\ l[Max(Opens(l, i))].rc = 0
              /\ i = Len(l)
         /\ Done(t) /\ ~Raised(t) => l[Len(l)].tag = "ln" /\ l[Len(l)].rc = 0

C10_Witness ==
  \E t \in Threads :
    /\ LuksAttach(t) /\ Done(t)
    /\ Len(log[t]) = 1 /\ log[t][1].rc = OtherCode
    /\ Propagated(t, 1)

\* ------------------------------------------------------------------------
\* C11: every command that is given a passphrase on its input carries
\* --key-file=-, and no passphrase appears among the arguments of a command.
\* ------------------------------------------------------------------------
HasArg(argv, a) == \E i \in 1..Len(argv) : argv[i] = a

Passphrases == {_get_passphrase(key), _get_mangled_passphrase(key), ForeignPassphrase}

NoPassphraseInArgv(c) == \A i \in 1..Len(c.argv) : c.argv[i] \notin Passphrases

C11_KeyFileFlagOnEveryPassphraseInput ==
  \A t \in Threads : \A i \in 1..Len(log[t]) :
    LET c == log[t][i]
    IN /\ c.input # None => HasArg(c.argv, "--key-file=-")
       /\ NoPassphraseInArgv(c)

\* C11 as amended: create, luksFormat and luksOpen carry --key-file=-;
\* luksAddKey and luksRemoveKey are given their passphrases on the input
\* without it; these five are the commands with an input, and no passphrase
\* appears among the arguments of any command.
C11_KeyFileFlagOnOpenAndFormat ==
  \A t \in Threads : \A i \in 1..Len(log[t]) :
    LET c == log[t][i]
    IN /\ c.input # None <=>
            c.tag \in {"open", "open_mangled", "format", "luksAddKey", "luksRemoveKey"}
       /\ c.tag \in {"open", "open_mangled", "format"} =>
            /\ HasArg(c.argv, "--key-file=-")
            /\ c.input \in Passphrases
       /\ c.tag \in {"luksAddKey", "luksRemoveKey"} => ~HasArg(c.argv, "--key-file=-")
       /\ NoPassphraseInArgv(c)

\* a migration that ran through: opens, luksAddKey and luksRemoveKey issued
C11_Witness ==
  \E t \in Threads :
    /\ LuksAttach(t) /\ Done(t) /\ ~Raised(t)
    /\ Indices(log[t], {"luksAddKey"}) # {}
    /\ Indices(log[t], {"luksRemoveKey"}) # {}
    /\ \E i \in Indices(log[t], {"open"}) : HasArg(log[t][i].argv, "--key-file=-")

\* ------------------------------------------------------------------------
\* C12: constructing an encryptor from connection info without a
\* device_path fails at once with VolumeEncryptionNotSupported, before any
\* command is executed; with a device_path the constructor goes on.
\* ------------------------------------------------------------------------
CtorRaised(t) == pc[t] = "ctor_raised"

InCtor(t) == pc[t] \in {"init_status_old", "init_status_wwn", "constructed"}

C12_NoDevicePathRaisesAtOnce ==
  \A t \in Threads :
    /\ CtorRaised(t) =>
         /\ obs[t].device_path = <<>>
         /\ err[t] = [exc |-> "VolumeEncryptionNotSupported", rc |-> 0, at |-> 0]
         /\ log[t] = <<>>
         /\ enc[t] = NoEnc
         /\ ~InFlight(t)
    /\ InCtor(t) =>
         /\ obs[t].device_path # <<>>
         /\ enc[t].symlink_path = obs[t].device_path

C12_Witness == \E t \in Threads : CtorRaised(t) /\ Raised(t) /\ log[t] = <<>>

\* ------------------------------------------------------------------------
\* C13: every create/luksOpen, remove/luksClose, luksFormat, luksAddKey,
\* luksRemoveKey and ln command is issued by an attach_volume or
\* detach_volume call that holds the lock, and the mapping table, the LUKS
\* header and the symbolic link change only in a step of such a call.
\* ------------------------------------------------------------------------
MutatingTags ==
  {"open", "open_mangled", "close", "format", "luksAddKey", "luksRemoveKey", "ln"}

HoldsLock(t) ==
  /\ enc[t] # NoEnc
  /\ lock[ProcOf(t)][LockName(enc[t].backend)] = t

\* in this step thread t runs a command with one of the tags
Issues(t, tags) ==
  /\ Len(log'[t]) = Len(log[t]) + 1
  /\ log'[t][Len(log'[t])].tag \in tags

C13_MutationsUnderLock ==
  [][/\ \A t \in Threads :
          Issues(t, MutatingTags) =>
            /\ HoldsLock(t)
            /\ call[t].kind \in {"attach", "detach"}
            /\ Done(t)' \/ HoldsLock(t)'
     /\ <<mapper, hdr, link>>' # <<mapper, hdr, link>> =>
          \E t \in Threads :
            /\ Issues(t, MutatingTags \cup {"udevadm"})
            /\ HoldsLock(t)]_vars

\* a call that has opened the mapping and still holds the lock
C13_Witness ==
  \E t \in Threads :
    /\ HoldsLock(t)
    /\ \E i \in Indices(log[t], {"open_mangled"}) : log[t][i].rc = 0
    /\ mapper[enc[t].dev_name].kind = "crypt"

\* ------------------------------------------------------------------------
\* C14: the lock is released on every exit path of attach_volume and
\* detach_volume: a caller holds it exactly while its call is running, so
\* after a call has returned or raised the lock is free and a later call
\* acquires it.
\* ------------------------------------------------------------------------
Running(t) == call[t].kind # None /\ ~Done(t)

C14_LockReleasedOnEveryExit ==
  \A t \in Threads :
    /\ InFlight(t) <=> Running(t)
    /\ Running(t) => HoldsLock(t)
    /\ Done(t) => \A n \in LockNames : lock[ProcOf(t)][n] # t

\* a call that raised, and after it a call on the same encryptor that
\* acquired the lock and raised in turn, with the lock free again
C14_Witness ==
  \E t \in Threads :
    /\ Done(t) /\ Raised(t)
    /\ prev[t].kind # None /\ prev[t].exc # None
    /\ \A p \in Procs, n \in LockNames : lock[p][n] = "free"

\* ------------------------------------------------------------------------
\* C15: dev_name, symlink_path and dev_path are fixed at construction: no
\* step of attach_volume or detach_volume changes them, whatever becomes of
\* the mappings, and every command of a call names the mapping by the
\* dev_name resolved at construction.
\* ------------------------------------------------------------------------
UsesResolvedName(t) ==
  \A i \in 1..Len(log[t]) :
    LET c == log[t][i]
        e == enc[t]
    IN /\ c.tag \in {"open", "open_mangled", "status", "close"} =>
            HasArg(c.argv, e.dev_name)
       /\ c.tag \in {"open", "open_mangled", "isLuks", "format",
                     "luksAddKey", "luksRemoveKey"} =>
            HasArg(c.argv, e.dev_path)
       /\ c.tag = "ln" =>
            /\ HasArg(c.argv, "/dev/mapper/" \o e.dev_name)
            /\ HasArg(c.argv, PathStr(e.symlink_path))

C15_NameFixedAtConstruction ==
  [][\A t \in Threads :
       /\ enc'[t] # enc[t] => call[t].kind = None /\ call'[t].kind = None
       /\ call'[t].kind # None => UsesResolvedName(t)']_vars

\* the legacy name was resolved, its mapping was removed by a detach, and the
\* next attach still opens under the legacy name
C15_Witness ==
  \E t \in Threads :
    /\ call[t].kind = "attach"
    /\ enc[t].dev_name = OldName
    /\ prev[t].kind = "detach" /\ prev[t].gone
    /\ Len(log[t]) >= 1 /\ log[t][1].tag = "open" /\ log[t][1].rc = 0
    /\ mapper[CryptName].kind = "none"

\* ------------------------------------------------------------------------
\* C16: the resolver's status queries for the legacy and the multipath name
\* are made only inside an attach_volume or detach_volume call, with the
\* lock held, so that no other caller's attach or detach runs during the
\* discovery.
\* ------------------------------------------------------------------------
InDiscovery(t) == pc[t] \in {"init_status_old", "init_status_wwn"}

C16_DiscoveryUnderLock ==
  \A t \in Threads :
    InDiscovery(t) =>
      /\ HoldsLock(t)
      /\ \A u \in Threads \ {t} : ~InFlight(u)

\* ------------------------------------------------------------------------
\* C17: _close_volume issues remove/luksClose exactly when its status query
\* finds a device mapped under dev_name: with nothing mapped (status exits
\* 4) the call returns normally after the status query alone; with a mapping
\* (status exits 0) remove/luksClose is issued, exit codes 0 and 4 are
\* accepted, and udevadm trigger follows, whose failure is not raised.
\* ------------------------------------------------------------------------
C17_RemoveIffMapped ==
  \A t \in Threads :
    Detach(t) /\ Done(t) =>
      LET l == log[t]
          n == Len(l)
      IN /\ l[1].tag = "status"
         /\ l[1].rc = 4 => n = 1 /\ ~Raised(t)
         /\ l[1].rc = 0 =>
              /\ n >= 2
              /\ l[2].tag = "close"
              /\ Raised(t) => l[n].tag = "close" /\ l[n].rc \notin {0, 4}
              /\ ~Raised(t) =>
                   /\ l[n].tag = "udevadm"
                   /\ l[n - 1].tag = "close" /\ l[n - 1].rc \in {0, 4}

\* ------------------------------------------------------------------------
\* C18: a luksFormat or luksClose operation runs its command at most 3
\* times, stops at the first accepted exit code and raises only after the
\* third failure; every other command runs once per operation; a call
\* issues a bounded number of commands.
\* ------------------------------------------------------------------------
Retried(t, c) == c.tag = "format" \/ (c.tag = "close" /\ enc[t].backend = "luks")

Accepted(c) == IF c.tag \in {"status", "close"} THEN c.rc \in {0, 4} ELSE c.rc = 0

C18_BoundedRetries ==
  \A t \in Threads :
    call[t].kind # None =>
      LET l == log[t]
          n == Len(l)
      IN /\ n <= 17
         /\ \A i \in 1..n :
              LET c == l[i]
              IN /\ c.attempt \in 1..(IF Retried(t, c) THEN 3 ELSE 1)
                 /\ c.attempt > 1 =>
                      /\ l[i - 1].tag = c.tag /\ l[i - 1].argv = c.argv
                      /\ l[i - 1].attempt = c.attempt - 1
                      /\ ~Accepted(l[i - 1])
                 /\ i < n /\ l[i + 1].tag = c.tag =>
                      /\ Retried(t, c) /\ ~Accepted(c)
                      /\ l[i + 1].attempt = c.attempt + 1
                 /\ Retried(t, c) /\ ~Accepted(c) /\ c.attempt < 3 =>
                      /\ i = n => Running(t)
                      /\ i < n => l[i + 1].tag = c.tag
                 /\ Raised(t) /\ err[t].at = i /\ Retried(t, c) =>
                      c.attempt = 3 /\ ~Accepted(c)

\* luksClose failed three times and the third failure was raised
C18_Witness ==
  \E t \in Threads :
    /\ Detach(t) /\ Done(t) /\ Raised(t)
    /\ enc[t].backend = "luks"
    /\ Len(log[t]) = 4
    /\ log[t][4].tag = "close" /\ log[t][4].attempt = 3
    /\ err[t].at = 4

\* ------------------------------------------------------------------------
\* C19: in a LUKS attach_volume that started on a header holding the mangled
\* key slot, the header holds the mangled or the current key slot in every
\* state, and the mangled slot goes away only after an open with the current
\* passphrase has succeeded in the same call.
\* ------------------------------------------------------------------------
Mangled == _get_mangled_passphrase(key)

Current == _get_passphrase(key)

StartedMangled(t) == LuksAttach(t) /\ SlotIn(start[t], Mangled) /\ Mangled # Current

OpenedWithCurrent(t) ==
  \E i \in Indices(log[t], {"open"}) : log[t][i].input = Current /\ log[t][i].rc = 0

C19_NoLockOut ==
  [][\A t \in Threads :
       StartedMangled(t)' =>
         LET d == enc[t].dev_path
         IN /\ SlotIn(hdr'[d], Mangled) \/ SlotIn(hdr'[d], Current)
            /\ SlotIn(hdr[d], Mangled) /\ ~SlotIn(hdr'[d], Mangled) =>
                 OpenedWithCurrent(t)]_vars

\* ------------------------------------------------------------------------
\* C20: after an attach_volume that returned normally, a fresh encryptor
\* constructed from the same connection info resolves the same dev_name
\* (its status queries answering as the mapping table stands), and its
\* detach_volume, when it returns normally, leaves no mapping under that name.
\* ------------------------------------------------------------------------
Fresh(t) == caller[t].fresh

NormalQueries(t) == \A i \in Indices(log[t], {"status"}) : log[t][i].rc # OtherCode

C20_RoundTrip ==
  \A t \in Threads :
    Fresh(t) =>
      /\ Constructed(t) /\ NormalQueries(t) => enc[t].dev_name = caller[t].attached
      /\ Detach(t) /\ Done(t) /\ ~Raised(t) =>
           mapper[caller[t].attached].kind # "crypt"

====
